---- MODULE Spec2Model ----
(***************************************************************************)
(* Model of learn/models/infogan.py: the construction of the InfoGAN       *)
(* graphs (InfoGAN.__init__) and the operations of a constructed model     *)
(* (train_on_minibatch, generate, encode, sanity_check).                   *)
(*                                                                         *)
(* Names (layer names, output names, metric names, log keys) are modelled  *)
(* as sequences of string tokens; string concatenation is \o and           *)
(* str.format fills the {} slots with tokens.                              *)
(***************************************************************************)
EXTENDS Integers, Sequences, FiniteSets, TLC

\* ------------------------------------------------------------------------
\* Bounds
\* ------------------------------------------------------------------------
\* number of rows of a minibatch (batch_size)
BatchSize == 2
\* number of public operations called on one constructed model
MaxCalls == 2

\* ------------------------------------------------------------------------
\* Python values
\* ------------------------------------------------------------------------
\* Python's None
None == "<None>"

\* truth value of a Python str-or-None in an `if`
Truthy(x) == x # None /\ x # ""

\* the empty dict, and dict helpers (a dict is a function on its keys)
EmptyDict == [k \in {} |-> 0]

\* sum of a sequence of integers
RECURSIVE SumSeq(_)
SumSeq(s) == IF s = <<>> THEN 0 ELSE Head(s) + SumSeq(Tail(s))

\* the elements of a sequence
Range(s) == {s[i] : i \in DOMAIN s}

\* all orders in which a dict with keys S can iterate
Orders(S) == {s \in [1..Cardinality(S) -> S] : Range(s) = S}

\* merge_dicts(x, y): z = x.copy(); z.update(y)
merge_dicts(x, y) ==
    [k \in (DOMAIN x) \cup (DOMAIN y) |-> IF k \in DOMAIN y THEN y[k] ELSE x[k]]

\* ------------------------------------------------------------------------
\* Distributions of the experiment (main_mnist.py)
\* ------------------------------------------------------------------------
\* names a caller uses for noise and for meaningful distributions
NoiseNames == {"z"}
MeaningfulNames == {"c1", "c2"}
DistNames == NoiseNames \cup MeaningfulNames

\* dist.param_info() as the ordered list of <<param name, dim>>;
\* c1 is Categorical(n_classes), c2 and z are IsotropicGaussian(dim)
param_info(dist_name) ==
    IF dist_name = "c1" THEN << <<"p_vals", 2>> >>
    ELSE << <<"mean", 1>>, <<"std", 1>> >>

\* dist.sample_size()
sample_size(dist_name) == IF dist_name = "c1" THEN 2 ELSE 1

\* the prior parameter bank of the experiment: prior_params[dist][param] is
\* an array of shape (batch, dim), given by one of its rows (its rows are
\* alike); every column of every array is a different value
PriorBank ==
    [d \in DistNames |->
        [p \in {param_info(d)[i][1] : i \in DOMAIN param_info(d)} |->
            LET k == CHOOSE i \in DOMAIN param_info(d) : param_info(d)[i][1] = p
            IN [j \in 1..param_info(d)[k][2] |-> <<d, p, j>>]]]

\* the supervised_dist_name values a caller may pass
SupervisedNames == {None, "", "c1", "c2", "z"}

\* a batch of label rows of width dim, and the zero batch np.zeros((batch_size, dim))
Rows(dim) == [1..dim -> 0..1]
Batches(dim) == [1..BatchSize -> Rows(dim)]
ZeroBatch(dim) == [r \in 1..BatchSize |-> [j \in 1..dim |-> 0]]

\* the batches of predicted parameter rows of a given width the encoder may
\* produce: each row all zeros or all ones
PredBatches(width) == [1..BatchSize -> {[j \in 1..width |-> v] : v \in 0..1}]


\* ------------------------------------------------------------------------
\* State
\* ------------------------------------------------------------------------
VARIABLES
    pc,                     \* position in __init__, then in the called operation
    noise_dists,            \* iteration order of the noise_dists dict
    meaningful_dists,       \* iteration order of the meaningful_dists dict
    supervised_dist_name,
    prior_params,
    trainable,              \* layer / network name -> its trainable flag
    weights,                \* layer / network name -> version of its weights
    assigned,               \* names whose flag was set since the last compile
    sampled_latents,
    prior_param_inputs,
    prior_param_names,
    prior_param_dist_names,
    c_post_outputs_gen,
    c_post_outputs_real,
    enc_loss_outputs_real,
    mi_losses,
    enc_losses,
    real_labels,            \* shape (dim,) of the label input, <<>> when there is none
    models,                 \* name of a compiled Keras model -> its record
    n_compiles,             \* number of compile() calls so far
    calls,                  \* number of public operations started
    passes,                 \* training passes run by the current train_on_minibatch
    labels_fed,             \* <<>>, or <<what the current discriminator pass fed as labels>>
    sup_rows,               \* per-row supervised loss of the current discriminator pass
    disc_losses,
    gen_losses,
    fed,                    \* the list last returned by _assemble_prior_params
    out,                    \* what the last operation returned
    graph_run               \* the tensors of the training pass in progress

cfg_vars == <<noise_dists, meaningful_dists, supervised_dist_name, prior_params>>
graph_vars == <<sampled_latents, prior_param_inputs, prior_param_names,
                prior_param_dist_names, c_post_outputs_gen, c_post_outputs_real,
                enc_loss_outputs_real, mi_losses, enc_losses, real_labels>>
call_vars == <<calls, passes, labels_fed, sup_rows, disc_losses, gen_losses, fed, out,
              graph_run>>
vars == <<pc, cfg_vars, trainable, weights, assigned, graph_vars, models,
          n_compiles, call_vars>>

\* ------------------------------------------------------------------------
\* Names
\* ------------------------------------------------------------------------
GenNet == <<"gen_net">>
SharedNetName == <<"shared_net">>
DiscTop == <<"disc_top">>
EncoderTopName == <<"encoder_top">>
Nets == {GenNet, SharedNetName, DiscTop, EncoderTopName}

\* "e_dense_{}_{}".format(dist_name, param), "e_activ_{}_{}".format(dist_name, param)
DenseName(dist_name, param) == <<"e_dense_", dist_name, "_", param>>
ActivName(dist_name, param) == <<"e_activ_", dist_name, "_", param>>

\* "g_prior_param_{}_{}".format(dist_name, param_name)
InputName(dist_name, param_name) == <<"g_prior_param_", dist_name, "_", param_name>>

\* "e_loss_output_{}_{}".format(dist_name, suffix)
LossOutputName(dist_name, is_generated) ==
    <<"e_loss_output_", dist_name, "_", IF is_generated THEN "gen" ELSE "real">>

DiscGenLossLayer == <<"d_gen_loss_output">>
DiscRealLossLayer == <<"d_real_loss_output">>

\* the parameter names and dims of a distribution, in param_info() order
ParamNames(dist_name) == [i \in DOMAIN param_info(dist_name) |-> param_info(dist_name)[i][1]]
ParamDims(dist_name) == [i \in DOMAIN param_info(dist_name) |-> param_info(dist_name)[i][2]]

\* self.dist_output_layers: the [dense, act] layers of every meaningful distribution
DistOutputLayers(dists) ==
    UNION {{DenseName(d, p), ActivName(d, p)} : <<d, p>> \in
              {<<d2, p2>> \in Range(dists) \X {"p_vals", "mean", "std"} :
                  p2 \in Range(ParamNames(d2))}}

\* the layers that carry weights: the networks and the dense layers
HasWeights(name) == name \in Nets \/ name[1] = "e_dense_"

\* no training pass is in progress
\* no operation has returned: nothing was called yet, or a call is in progress
NoOut == [op |-> "none"]

NoRun ==
    [model |-> "none", merged |-> <<>>, param_dicts |-> <<>>, tensors |-> <<>>,
     head_out |-> <<>>, preds |-> <<>>, dummy_targets |-> <<>>, loss_rows |-> <<>>]

\* ------------------------------------------------------------------------
\* Init: InfoGAN(...) is called with its arguments
\* ------------------------------------------------------------------------
Init ==
    /\ pc = "new"
    /\ noise_dists \in Orders(NoiseNames)
    /\ meaningful_dists \in UNION {Orders(S) : S \in SUBSET MeaningfulNames \ {{}}}
    /\ supervised_dist_name \in SupervisedNames
    /\ prior_params = PriorBank
    /\ trainable = EmptyDict
    /\ weights = EmptyDict
    /\ assigned = {}
    /\ sampled_latents = {}
    /\ prior_param_inputs = <<>>
    /\ prior_param_names = <<>>
    /\ prior_param_dist_names = <<>>
    /\ c_post_outputs_gen = <<>>
    /\ c_post_outputs_real = <<>>
    /\ enc_loss_outputs_real = <<>>
    /\ mi_losses = EmptyDict
    /\ enc_losses = EmptyDict
    /\ real_labels = <<>>
    /\ models = EmptyDict
    /\ n_compiles = 0
    /\ calls = 0
    /\ passes = <<>>
    /\ labels_fed = <<>>
    /\ sup_rows = <<>>
    /\ disc_losses = <<>>
    /\ gen_losses = <<>>
    /\ fed = <<>>
    /\ out = NoOut
    /\ graph_run = NoRun


\* ------------------------------------------------------------------------
\* Latent Sampler
\* ------------------------------------------------------------------------
\* _sample_latent_input: the sample node, the parameter names and the Input
\* placeholders of one distribution, in param_info() order
_sample_latent_input(dist_name) ==
    [sample |-> <<"g_sample_prior_", dist_name>>,
     param_names |-> ParamNames(dist_name),
     param_inputs |-> [i \in DOMAIN param_info(dist_name) |->
                          [name |-> InputName(dist_name, param_info(dist_name)[i][1]),
                           shape |-> <<param_info(dist_name)[i][2]>>]]]

\* [name], whatever n is
RepeatOnce(name, n) == <<name>>

\* [name] * n
Repeat(name, n) == [i \in 1..n |-> name]

\* one `for name, dist in ....items()` loop of _sample_latent_inputs
RECURSIVE SampleLoop(_, _)
SampleLoop(names, acc) ==
    IF names = <<>> THEN acc
    ELSE LET name == Head(names)
             one == _sample_latent_input(name)
         IN SampleLoop(Tail(names),
                [samples |-> acc.samples \cup {name},
                 all_param_inputs |-> acc.all_param_inputs \o one.param_inputs,
                 all_param_names |-> acc.all_param_names \o one.param_names,
                 all_param_dist_names |-> acc.all_param_dist_names
                                             \o Repeat(name, Len(one.param_names))])

\* _sample_latent_inputs: the noise loop, then the meaningful loop
_sample_latent_inputs(noise, meaningful) ==
    SampleLoop(meaningful,
        SampleLoop(noise,
            [samples |-> {}, all_param_inputs |-> <<>>, all_param_names |-> <<>>,
             all_param_dist_names |-> <<>>]))

\* zip(a, b) stops at the shorter list
ZipLen(a, b) == IF Len(a) <= Len(b) THEN Len(a) ELSE Len(b)

\* _assemble_prior_params
_assemble_prior_params(dist_names, param_names, bank) ==
    [i \in 1..ZipLen(dist_names, param_names) |-> bank[dist_names[i]][param_names[i]]]

\* ------------------------------------------------------------------------
\* Posterior heads and losses
\* ------------------------------------------------------------------------
\* a loss function: which function, the tensor its closure captured, its distribution
LossFn(fn, samples, dist_name) == [fn |-> fn, samples |-> samples, dist |-> dist_name]

\* _add_enc_outputs_and_losses: posterior_outputs in dict order, and the losses
enc_posterior_outputs(meaningful, is_generated) ==
    [i \in DOMAIN meaningful |-> LossOutputName(meaningful[i], is_generated)]

enc_mi_losses(meaningful, is_generated, supervised) ==
    LET keyed == IF is_generated THEN Range(meaningful)
                 ELSE {d \in Range(meaningful) : supervised = d}
    IN [k \in {LossOutputName(d, is_generated) : d \in keyed} |->
           IF is_generated
           THEN LossFn("mutual_info_loss", <<"g_sample_prior_", k[2]>>, k[2])
           ELSE LossFn("wrapped_loss", <<"real_labels">>, k[2])]


\* preds[:, param_index:param_index + dim] for every parameter, on one row
param_dict(row, names, dims) ==
    [p \in Range(names) |->
        LET j == CHOOSE k \in DOMAIN names : names[k] = p
            param_index == SumSeq(SubSeq(dims, 1, j - 1))
        IN SubSeq(row, param_index + 1, param_index + dims[j])]

Abs(x) == IF x < 0 THEN -x ELSE x

\* dist.nll(samples, param_dict) on one row, in integers: a Categorical pays
\* for the classes the sample marks and the prediction misses, a Gaussian
\* pays a positive constant, the distance to the mean and the spread
nll(dist_name, sample, params) ==
    IF "p_vals" \in DOMAIN params
    THEN SumSeq([j \in DOMAIN sample |-> sample[j] * (1 - params["p_vals"][j])])
    ELSE 1 + SumSeq([j \in DOMAIN sample |-> Abs(sample[j] - params["mean"][j])])
           + SumSeq(params["std"])

\* _build_mi_loss(...).mutual_info_loss: one loss per row of the batch
mutual_info_loss(samples, preds, dist_name) ==
    [r \in DOMAIN preds |->
        nll(dist_name, samples[r],
            param_dict(preds[r], ParamNames(dist_name), ParamDims(dist_name)))]

\* K.all(K.equal(self.real_labels, K.zeros_like(self.real_labels)))
labels_missing(labels) ==
    \A r \in DOMAIN labels : \A j \in DOMAIN labels[r] : labels[r][j] = 0

\* a wrapped loss without the switch
wrapped_loss_unmasked(labels, preds, dist_name) ==
    mutual_info_loss(labels, preds, dist_name)

\* a wrapped loss that masks row by row
wrapped_loss_per_row(labels, preds, dist_name) ==
    [r \in 1..BatchSize |->
        IF \A j \in DOMAIN labels[r] : labels[r][j] = 0
        THEN 0
        ELSE mutual_info_loss(labels, preds, dist_name)[r]]

\* wrapped_loss: K.switch(labels_missing, K.zeros((batch_size,)), loss(targets, preds))
wrapped_loss(labels, preds, dist_name) ==
    IF labels_missing(labels)
    THEN [r \in 1..BatchSize |-> 0]
    ELSE mutual_info_loss(labels, preds, dist_name)

\* ------------------------------------------------------------------------
\* Keras models
\* ------------------------------------------------------------------------
\* network.freeze() / network.unfreeze(): set the flag of the network's layers
freeze(flags, net) == [flags EXCEPT ![net] = FALSE]
unfreeze(flags, net) == [flags EXCEPT ![net] = TRUE]

\* model.compile(): the model keeps the weights that are trainable now
\* (its collected trainable weights); later flag changes do not reach it
CollectedTrainable(flags) == {g \in DOMAIN flags : flags[g] /\ HasWeights(g)}

K_Model(inputs, outputs, loss, flags) ==
    [inputs |-> inputs, outputs |-> outputs, loss |-> loss,
     collected |-> CollectedTrainable(flags)]

\* model.metrics_names of a compiled model with several outputs
metrics_names(model) ==
    <<<<"loss">>>> \o [i \in DOMAIN model.outputs |-> Append(model.outputs[i], "_loss")]

\* an optimizer step that reads the trainable flags when it runs
train_step_by_flags(model, w) ==
    [g \in DOMAIN w |-> IF trainable[g] /\ HasWeights(g) THEN w[g] + 1 ELSE w[g]]

\* the weights after one optimizer step of a model
train_step(model, w) ==
    [g \in DOMAIN w |-> IF g \in model.collected THEN w[g] + 1 ELSE w[g]]


\* ------------------------------------------------------------------------
\* InfoGAN.__init__, step by step
\* ------------------------------------------------------------------------
\* new layers and networks are trainable and carry fresh weights
WithNew(f, names, v) ==
    [g \in (DOMAIN f) \cup names |-> IF g \in DOMAIN f THEN f[g] ELSE v]

\* "Define meaningful dist output layers"
BuildDistOutputLayers ==
    /\ pc = "new"
    /\ trainable' = WithNew(trainable, DistOutputLayers(meaningful_dists), TRUE)
    /\ weights' = WithNew(weights,
                     {g \in DistOutputLayers(meaningful_dists) : HasWeights(g)}, 0)
    /\ pc' = "sample_latents"
    /\ UNCHANGED <<cfg_vars, assigned, graph_vars, models, n_compiles, call_vars>>

\* self._sample_latent_inputs() and the four attributes it fills
SampleLatentInputs ==
    /\ pc = "sample_latents"
    /\ LET got == _sample_latent_inputs(noise_dists, meaningful_dists)
       IN /\ sampled_latents' = got.samples
          /\ prior_param_inputs' = got.all_param_inputs
          /\ prior_param_names' = got.all_param_names
          /\ prior_param_dist_names' = got.all_param_dist_names
    /\ pc' = "gen_branch"
    /\ UNCHANGED <<cfg_vars, trainable, weights, assigned, c_post_outputs_gen,
                   c_post_outputs_real, enc_loss_outputs_real, mi_losses, enc_losses,
                   real_labels, models, n_compiles, call_vars>>

\* GENERATION BRANCH and GEN DISC & ENCODER BRANCH: the four networks are
\* created and the generated path gets its posterior outputs and MI losses
BuildGenBranch ==
    /\ pc = "gen_branch"
    /\ trainable' = WithNew(trainable, Nets, TRUE)
    /\ weights' = WithNew(weights, Nets, 0)
    /\ c_post_outputs_gen' = enc_posterior_outputs(meaningful_dists, TRUE)
    /\ mi_losses' = enc_mi_losses(meaningful_dists, TRUE, supervised_dist_name)
    /\ pc' = "real_input"
    /\ UNCHANGED <<cfg_vars, assigned, sampled_latents, prior_param_inputs,
                   prior_param_names, prior_param_dist_names, c_post_outputs_real,
                   enc_loss_outputs_real, enc_losses, real_labels, models,
                   n_compiles, call_vars>>

\* `if self.supervised_dist_name: assert ... in self.meaningful_dists`
SupervisedAssertFails(name, meaningful) ==
    Truthy(name) /\ name \notin Range(meaningful)

\* REAL DISC & ENCODER BRANCH, the inputs: the assertion, then self.real_labels
CheckSupervised ==
    /\ pc = "real_input"
    /\ IF SupervisedAssertFails(supervised_dist_name, meaningful_dists)
       THEN /\ pc' = "raised"
            /\ out' = [op |-> "__init__", raised |-> "AssertionError"]
            /\ UNCHANGED real_labels
       ELSE /\ pc' = "real_branch"
            /\ real_labels' = IF Truthy(supervised_dist_name)
                              THEN <<sample_size(supervised_dist_name)>>
                              ELSE <<>>
            /\ UNCHANGED out
    /\ UNCHANGED <<cfg_vars, trainable, weights, assigned, sampled_latents,
                   prior_param_inputs, prior_param_names, prior_param_dist_names,
                   c_post_outputs_gen, c_post_outputs_real, enc_loss_outputs_real,
                   mi_losses, enc_losses, models, n_compiles, calls, passes,
                   labels_fed, sup_rows, disc_losses, gen_losses, fed, graph_run>>

\* REAL DISC & ENCODER BRANCH, the rest: posterior outputs of the real path,
\* the supervised loss and enc_losses = merge_dicts(mi_losses, sup_losses)
BuildRealBranch ==
    /\ pc = "real_branch"
    /\ c_post_outputs_real' = enc_posterior_outputs(meaningful_dists, FALSE)
    /\ enc_loss_outputs_real' =
          IF Truthy(supervised_dist_name)
          THEN <<LossOutputName(supervised_dist_name, FALSE)>>
          ELSE <<>>
    /\ enc_losses' = merge_dicts(mi_losses,
                        enc_mi_losses(meaningful_dists, FALSE, supervised_dist_name))
    /\ pc' = "gen_model"
    /\ UNCHANGED <<cfg_vars, trainable, weights, assigned, sampled_latents,
                   prior_param_inputs, prior_param_names, prior_param_dist_names,
                   c_post_outputs_gen, mi_losses, real_labels, models, n_compiles,
                   call_vars>>

\* the names of a list of Input placeholders
InputNames(inputs) == [i \in DOMAIN inputs |-> inputs[i].name]

\* K_Model(...) followed by .compile(...) at position `at`, going to `next`
Compile(at, next, name, inputs, outputs, loss) ==
    /\ pc = at
    /\ models' = WithNew([m \in (DOMAIN models) \ {name} |-> models[m]], {name},
                         K_Model(inputs, outputs, loss, trainable))
    /\ n_compiles' = n_compiles + 1
    /\ assigned' = {}
    /\ pc' = next
    /\ UNCHANGED <<cfg_vars, trainable, weights, graph_vars, call_vars>>

\* GENERATOR MODEL
CompileGenModel ==
    Compile("gen_model", "encoder_model", "gen_model",
            InputNames(prior_param_inputs), << <<"g_x_sampling">> >>,
            "mean_squared_error")

\* ENCODER MODEL
CompileEncoderModel ==
    Compile("encoder_model", "disc_model", "encoder_model",
            << <<"d_input">> >>, c_post_outputs_real, "mean_squared_error")

\* DISCRIMINATOR MODEL
CompileDiscModel ==
    Compile("disc_model", "disc_train_freeze", "disc_model",
            << <<"d_input">> >>, <<DiscRealLossLayer>>, "mean_squared_error")


\* one statement of __init__ that sets trainable flags: the flags after it
\* and the names it assigned
SetFlags(at, next, flags, names) ==
    /\ pc = at
    /\ trainable' = flags
    /\ assigned' = assigned \cup names
    /\ pc' = next
    /\ UNCHANGED <<cfg_vars, weights, graph_vars, models, n_compiles, call_vars>>

\* DISCRIMINATOR TRAINING MODEL: gen_net.freeze()
DiscTrainFreeze ==
    SetFlags("disc_train_freeze", "disc_train_model", freeze(trainable, GenNet), {GenNet})

\* disc_train_inputs
disc_train_inputs ==
    (IF Truthy(supervised_dist_name)
     THEN << <<"d_input">>, <<"real_labels">> >>
     ELSE << <<"d_input">> >>) \o InputNames(prior_param_inputs)

\* disc_enc_losses = merge_dicts(disc_losses, enc_losses)
disc_enc_losses ==
    merge_dicts(
        [k \in {DiscGenLossLayer, DiscRealLossLayer} |->
            IF k = DiscGenLossLayer
            THEN LossFn("disc_gen_loss", <<>>, None)
            ELSE LossFn("disc_real_loss", <<>>, None)],
        enc_losses)

\* self.disc_train_model = K_Model(...); self.disc_train_model.compile(...)
CompileDiscTrainModel ==
    Compile("disc_train_model", "gen_train_unfreeze", "disc_train_model",
            disc_train_inputs,
            <<DiscGenLossLayer, DiscRealLossLayer>> \o c_post_outputs_gen
                \o enc_loss_outputs_real,
            disc_enc_losses)

\* the generator-training setup without its gen_net.unfreeze()
GenTrainUnfreezeSkipped ==
    SetFlags("gen_train_unfreeze", "freeze_shared", trainable, {})

\* GENERATOR TRAINING MODEL: gen_net.unfreeze()
GenTrainUnfreeze ==
    SetFlags("gen_train_unfreeze", "freeze_shared", unfreeze(trainable, GenNet), {GenNet})

\* shared_net.freeze()
FreezeShared ==
    SetFlags("freeze_shared", "freeze_disc_top", freeze(trainable, SharedNetName),
             {SharedNetName})

\* disc_top.freeze()
FreezeDiscTop ==
    SetFlags("freeze_disc_top", "freeze_encoder_top", freeze(trainable, DiscTop), {DiscTop})

\* encoder_top.freeze()
FreezeEncoderTop ==
    SetFlags("freeze_encoder_top", "freeze_heads", freeze(trainable, EncoderTopName),
             {EncoderTopName})

\* a loop that reaches the layers of the first distribution only
HeadLayersFirstOnly == DistOutputLayers(<<meaningful_dists[1]>>)

\* the layers the loop over self.dist_output_layers reaches
HeadLayers == DistOutputLayers(meaningful_dists)

\* for ... in self.dist_output_layers.values(): ... layer.trainable = False
FreezeHeads ==
    SetFlags("freeze_heads", "gen_train_model",
             [g \in DOMAIN trainable |-> IF g \in HeadLayers THEN FALSE ELSE trainable[g]],
             HeadLayers)

\* generator losses merged with enc_losses, which also holds the supervised
\* loss of the real path
gen_losses_with_enc_losses ==
    merge_dicts([k \in {DiscGenLossLayer} |-> LossFn("gen_loss", <<>>, None)], enc_losses)

\* gen_losses = merge_dicts({disc_gen_loss_layer.name: gen_loss}, mi_losses)
gen_losses_dict ==
    merge_dicts([k \in {DiscGenLossLayer} |-> LossFn("gen_loss", <<>>, None)], mi_losses)

\* self.gen_train_model = K_Model(...); self.gen_train_model.compile(...);
\* the two debugging functions follow and construction is over
CompileGenTrainModel ==
    Compile("gen_train_model", "ready", "gen_train_model",
            InputNames(prior_param_inputs),
            <<DiscGenLossLayer>> \o c_post_outputs_gen,
            gen_losses_dict)

Construct ==
    \/ BuildDistOutputLayers
    \/ SampleLatentInputs
    \/ BuildGenBranch
    \/ CheckSupervised
    \/ BuildRealBranch
    \/ CompileGenModel
    \/ CompileEncoderModel
    \/ CompileDiscModel
    \/ DiscTrainFreeze
    \/ CompileDiscTrainModel
    \/ GenTrainUnfreeze
    \/ FreezeShared
    \/ FreezeDiscTop
    \/ FreezeEncoderTop
    \/ FreezeHeads
    \/ CompileGenTrainModel


\* ------------------------------------------------------------------------
\* The tensors of one run of a training graph
\* ------------------------------------------------------------------------
\* Concatenate(axis=-1)(tensors), on one row
RECURSIVE Concatenate(_)
Concatenate(tensors) ==
    IF tensors = <<>> THEN <<>> ELSE Head(tensors) \o Concatenate(Tail(tensors))

\* _sample_latent_input: merged_params is the concatenation of the parameter
\* inputs when there are several, the only input otherwise
merged_params(param_inputs) ==
    IF Len(param_inputs) > 1 THEN Concatenate(param_inputs) ELSE param_inputs[1]

\* a sampling_fn whose loop does not advance i
RECURSIVE sampling_fn_stuck(_, _, _, _, _)
sampling_fn_stuck(merged, param_names, param_dims, j, i) ==
    IF j > Len(param_dims) THEN EmptyDict
    ELSE merge_dicts(
            [p \in {param_names[j]} |-> SubSeq(merged, i + 1, i + param_dims[j])],
            sampling_fn_stuck(merged, param_names, param_dims, j + 1, i))

\* sampling_fn: the param_dict handed to dist.sample, on one row; the loop
\* is at parameter j with i columns consumed
RECURSIVE sampling_fn(_, _, _, _, _)
sampling_fn(merged, param_names, param_dims, j, i) ==
    IF j > Len(param_dims) THEN EmptyDict
    ELSE merge_dicts(
            [p \in {param_names[j]} |-> SubSeq(merged, i + 1, i + param_dims[j])],
            sampling_fn(merged, param_names, param_dims, j + 1, i + param_dims[j]))

\* the value each Input placeholder of a distribution receives from the list
\* of fed values, which is positional in prior_param_inputs
FedTo(dist_name, values) ==
    LET one == _sample_latent_input(dist_name)
    IN [k \in DOMAIN one.param_inputs |->
           values[CHOOSE i \in DOMAIN prior_param_inputs :
                      prior_param_inputs[i].name = one.param_inputs[k].name]]

\* _add_enc_outputs_and_losses: the posterior output is the concatenation of
\* the parameter outputs when there are several, a linear Activation of the
\* only one otherwise
merged_posterior(param_outputs_list) ==
    IF Len(param_outputs_list) > 1
    THEN Concatenate(param_outputs_list)
    ELSE param_outputs_list[1]

\* dist.sample(param_dict): row r of one draw of the distribution, a one-hot
\* row for the Categorical
dist_sample(dist_name, draw, r) ==
    [j \in 1..sample_size(dist_name) |->
        IF dist_name = "c1"
        THEN (IF j = ((draw + r) % sample_size(dist_name)) + 1 THEN 1 ELSE 0)
        ELSE (draw + r) % 2]

\* row r of the output of the [dense, act] head of parameter number k of a
\* distribution on the encoder trunk: it depends on the weights and the input
head_output(k, dim, x, r) == [j \in 1..dim |-> (k + j + x + r) % 2]

\* row r of the discriminator head's output, as a level: 0, 1, 2 stand for
\* the probabilities 0, 1/2, 1
disc_output(on_real, x, r) == (x + r + (IF on_real THEN 1 ELSE 0)) % 3

\* -log(p + epsilon) of a probability level in integers: decreasing in p and
\* even, so that halving is exact
NegLog(level) == IF level = 0 THEN 32 ELSE IF level = 1 THEN 2 ELSE 0

\* the targets a training framework may supply for one output
Targets == [1..BatchSize -> 0..1]

\* dummy targets: np.ones((self.batch_size,)) for every output
DummyTargets(model) == [i \in DOMAIN model.outputs |-> [r \in 1..BatchSize |-> 1]]

\* a discriminator loss weighted by its targets, as a binary cross-entropy is
disc_real_loss_by_targets(targets, real_preds) ==
    [r \in DOMAIN real_preds |-> targets[r] * (NegLog(real_preds[r]) \div 2)]

\* disc_real_loss: -K.log(real_preds + K.epsilon()) / 2.0
disc_real_loss(targets, real_preds) ==
    [r \in DOMAIN real_preds |-> NegLog(real_preds[r]) \div 2]

\* disc_gen_loss: -K.log(1 - gen_preds + K.epsilon()) / 2.0
disc_gen_loss(targets, gen_preds) ==
    [r \in DOMAIN gen_preds |-> NegLog(2 - gen_preds[r]) \div 2]

\* gen_loss: -K.log(preds + K.epsilon())
gen_loss(targets, preds) ==
    [r \in DOMAIN preds |-> NegLog(preds[r])]

\* the loss function a compiled model holds for an output, called the way
\* Keras calls it: fn(targets, preds). The closures of _build_mi_loss and
\* wrapped_loss read the tensor they captured (sampled latents, real labels)
call_loss(loss_fn, targets, preds, tensors) ==
    IF loss_fn.fn = "disc_real_loss" THEN disc_real_loss(targets, preds)
    ELSE IF loss_fn.fn = "disc_gen_loss" THEN disc_gen_loss(targets, preds)
    ELSE IF loss_fn.fn = "gen_loss" THEN gen_loss(targets, preds)
    ELSE IF loss_fn.fn = "mutual_info_loss"
    THEN mutual_info_loss(tensors[loss_fn.samples], preds, loss_fn.dist)
    ELSE wrapped_loss(tensors[loss_fn.samples], preds, loss_fn.dist)

\* the draws the latent sampler may make in one run
Draws == {0, 1}

\* the part of a run of a training model that does not read the labels: the
\* sampler merges the fed prior parameters and slices them for dist.sample,
\* the encoder heads of the generated path are merged into the posterior
\* outputs, and the loss function of each of these outputs is called with its
\* dummy target
UnsupervisedRun(model_name, draw) ==
    LET model == models[model_name]
        dists == Range(noise_dists) \cup Range(meaningful_dists)
        values == _assemble_prior_params(prior_param_dist_names, prior_param_names,
                                         prior_params)
        merged == [d \in dists |-> merged_params(FedTo(d, values))]
        tensors ==
            [t \in {<<"g_sample_prior_", d>> : d \in dists} |->
                [r \in 1..BatchSize |-> dist_sample(t[2], draw, r)]]
        head_out ==
            [d \in Range(meaningful_dists) |->
                [k \in DOMAIN param_info(d) |->
                    [r \in 1..BatchSize |->
                        head_output(k, param_info(d)[k][2],
                                    draw + weights[EncoderTopName], r)]]]
        preds ==
            [o \in Range(model.outputs) \ Range(enc_loss_outputs_real) |->
                IF o = DiscGenLossLayer
                THEN [r \in 1..BatchSize |->
                         disc_output(FALSE, draw + weights[DiscTop], r)]
                ELSE IF o = DiscRealLossLayer
                THEN [r \in 1..BatchSize |->
                         disc_output(TRUE, draw + weights[DiscTop], r)]
                ELSE [r \in 1..BatchSize |->
                         merged_posterior([k \in DOMAIN head_out[o[2]] |->
                                              head_out[o[2]][k][r]])]]
        dummy_targets == DummyTargets(model)
    IN [model |-> model_name,
        merged |-> merged,
        param_dicts |-> [d \in dists |->
                            sampling_fn(merged[d], ParamNames(d), ParamDims(d), 1, 0)],
        tensors |-> tensors,
        head_out |-> head_out,
        preds |-> preds,
        dummy_targets |-> dummy_targets,
        loss_rows |-> [o \in DOMAIN preds |->
                          call_loss(model.loss[o],
                                    dummy_targets[CHOOSE i \in DOMAIN model.outputs :
                                                      model.outputs[i] = o],
                                    preds[o], tensors)]]

\* one run of a training model on a batch: the run above, and for the
\* supervised output of the real path, if the model has one, its predictions
\* and its loss function called on them with the labels fed
RunGraph(unsupervised, labels_batch, sup_preds) ==
    LET model == models[unsupervised.model]
        sup == Range(model.outputs) \cap Range(enc_loss_outputs_real)
        tensors == merge_dicts(unsupervised.tensors,
                               [t \in {<<"real_labels">> : o \in sup} |-> labels_batch[1]])
    IN [unsupervised EXCEPT
           !.tensors = tensors,
           !.preds = merge_dicts(@, [o \in sup |-> sup_preds]),
           !.loss_rows =
               merge_dicts(@,
                   [o \in sup |->
                       call_loss(model.loss[o],
                                 unsupervised.dummy_targets[
                                     CHOOSE i \in DOMAIN model.outputs :
                                         model.outputs[i] = o],
                                 sup_preds, tensors)])]

\* ------------------------------------------------------------------------
\* Operations of a constructed model
\* ------------------------------------------------------------------------
\* the passes in the other order
TrainOrderSwapped == <<"gen", "disc">>

\* the order of the two passes in train_on_minibatch
TrainOrder == <<"disc", "gen">>

\* where a pass runs, and where the call is after it
PassPc(name) == IF TrainOrder[1] = name THEN "ready" ELSE "train_second"
AfterPass(name) == IF TrainOrder[1] = name THEN "train_second" ELSE "train_return"

\* a call starts with its first pass
StartsCall(name) == TrainOrder[1] = name
CanStart == pc = "ready" /\ calls < MaxCalls

\* the label batches a caller may pass: None (<<>>) or one batch
LabelArgs ==
    {<<>>} \cup {<<b>> : b \in Batches(IF real_labels = <<>> THEN 1 ELSE real_labels[1])}

\* model.train_on_batch(...): the total loss, then one loss per output. The
\* supervised output's loss is computed from its rows; the other outputs'
\* losses depend on the weights
train_on_batch(model, w, sup_output, rows) ==
    LET per_output == [i \in DOMAIN model.outputs |->
                          IF model.outputs[i] \in sup_output
                          THEN SumSeq(rows)
                          ELSE i + w[SharedNetName] + w[GenNet]]
    IN <<SumSeq(per_output)>> \o per_output

\* _train_disc_pass(samples, labels)
TrainDiscPass ==
    /\ pc = PassPc("disc")
    /\ StartsCall("disc") => CanStart
    /\ \E draw \in Draws :
       LET unsupervised == UnsupervisedRun("disc_train_model", draw) IN
       \E labels \in LabelArgs :
       \E preds \in PredBatches(IF Truthy(supervised_dist_name)
                            THEN SumSeq(ParamDims(supervised_dist_name)) ELSE 1) :
          LET labels_batch == IF labels = <<>> /\ Truthy(supervised_dist_name)
                              THEN <<ZeroBatch(sample_size(supervised_dist_name))>>
                              ELSE labels
              rows == IF Truthy(supervised_dist_name)
                      THEN wrapped_loss(labels_batch[1], preds, supervised_dist_name)
                      ELSE <<>>
          IN /\ graph_run' = RunGraph(unsupervised, labels_batch, preds)
             /\ labels_fed' = IF Truthy(supervised_dist_name)
                              THEN <<[given |-> labels # <<>>,
                                      batch |-> labels_batch[1],
                                      preds |-> preds]>>
                              ELSE <<>>
             /\ sup_rows' = rows
             /\ disc_losses' = train_on_batch(models["disc_train_model"], weights,
                                              Range(enc_loss_outputs_real), rows)
    /\ fed' = _assemble_prior_params(prior_param_dist_names, prior_param_names,
                                     prior_params)
    /\ weights' = train_step(models["disc_train_model"], weights)
    /\ passes' = Append(passes, "disc")
    /\ calls' = IF StartsCall("disc") THEN calls + 1 ELSE calls
    /\ pc' = AfterPass("disc")
    /\ out' = IF StartsCall("disc") THEN NoOut ELSE out
    /\ UNCHANGED <<cfg_vars, trainable, assigned, graph_vars, models, n_compiles,
                   gen_losses>>

\* _train_gen_pass()
TrainGenPass ==
    /\ pc = PassPc("gen")
    /\ StartsCall("gen") => CanStart
    /\ gen_losses' = train_on_batch(models["gen_train_model"], weights, {}, <<>>)
    /\ \E draw \in Draws :
          graph_run' = RunGraph(UnsupervisedRun("gen_train_model", draw), <<>>, <<>>)
    /\ labels_fed' = <<>>
    /\ sup_rows' = <<>>
    /\ fed' = _assemble_prior_params(prior_param_dist_names, prior_param_names,
                                     prior_params)
    /\ weights' = train_step(models["gen_train_model"], weights)
    /\ passes' = Append(passes, "gen")
    /\ calls' = IF StartsCall("gen") THEN calls + 1 ELSE calls
    /\ pc' = AfterPass("gen")
    /\ out' = IF StartsCall("gen") THEN NoOut ELSE out
    /\ UNCHANGED <<cfg_vars, trainable, assigned, graph_vars, models, n_compiles,
                   disc_losses>>

\* one `for loss, loss_name in zip(losses, names): loss_logs[prefix + loss_name] = loss`
prefixed_logs(prefix, losses, names) ==
    [k \in {<<prefix>> \o names[i] : i \in 1..ZipLen(losses, names)} |->
        LET last == CHOOSE i \in 1..ZipLen(losses, names) :
                        /\ <<prefix>> \o names[i] = k
                        /\ \A j \in 1..ZipLen(losses, names) :
                              <<prefix>> \o names[j] = k => j <= i
        IN losses[last]]

\* the logs with the two loss lists taken for each other
loss_logs_swapped(g_losses, d_losses) ==
    merge_dicts(
        prefixed_logs("g_", d_losses, metrics_names(models["gen_train_model"])),
        prefixed_logs("d_", g_losses, metrics_names(models["disc_train_model"])))

\* loss_logs of train_on_minibatch: the generator loop, then the discriminator loop
loss_logs(g_losses, d_losses) ==
    merge_dicts(
        prefixed_logs("g_", g_losses, metrics_names(models["gen_train_model"])),
        prefixed_logs("d_", d_losses, metrics_names(models["disc_train_model"])))

\* return {'losses': loss_logs}
train_return(logs) == [k \in {<<"losses">>} |-> logs]

\* the end of train_on_minibatch: the logs are built and returned
TrainReturn ==
    /\ pc = "train_return"
    /\ out' = [op |-> "train_on_minibatch",
               value |-> train_return(loss_logs(gen_losses, disc_losses))]
    /\ passes' = <<>>
    /\ labels_fed' = <<>>
    /\ sup_rows' = <<>>
    /\ graph_run' = NoRun
    /\ pc' = "ready"
    /\ UNCHANGED <<cfg_vars, trainable, weights, assigned, graph_vars, models,
                   n_compiles, calls, disc_losses, gen_losses, fed>>


\* what a prediction of a graph depends on: the weights of the layers it runs
Restrict(w, names) == [g \in (DOMAIN w) \cap names |-> w[g]]

\* the part of an operation that touches no weight, flag or graph
Predicts(op, value, params) ==
    /\ CanStart
    /\ calls' = calls + 1
    /\ out' = [op |-> op, value |-> value]
    /\ fed' = params
    /\ UNCHANGED <<pc, cfg_vars, trainable, weights, assigned, graph_vars, models,
                   n_compiles, passes, labels_fed, sup_rows, disc_losses, gen_losses,
                   graph_run>>

\* a generate() that runs a training step of the generator-training graph
GenerateByTraining ==
    /\ CanStart
    /\ calls' = calls + 1
    /\ fed' = _assemble_prior_params(prior_param_dist_names, prior_param_names,
                                     prior_params)
    /\ out' = [op |-> "generate", value |-> <<fed', Restrict(weights, {GenNet})>>]
    /\ weights' = [g \in DOMAIN weights |->
                      IF g \in models["gen_train_model"].collected
                      THEN weights[g] + 1 ELSE weights[g]]
    /\ UNCHANGED <<pc, cfg_vars, trainable, assigned, graph_vars, models,
                   n_compiles, passes, labels_fed, sup_rows, disc_losses, gen_losses,
                   graph_run>>

\* generate(): self.gen_model.predict(prior_params, batch_size=self.batch_size)
Generate ==
    LET params == _assemble_prior_params(prior_param_dist_names, prior_param_names,
                                         prior_params)
    IN Predicts("generate", <<params, Restrict(weights, {GenNet})>>, params)

\* encode(samples): self.encoder_model.predict(samples, batch_size=self.batch_size)
Encode ==
    Predicts("encode",
             Restrict(weights, {SharedNetName, EncoderTopName} \cup HeadLayers), fed)

\* the discriminator's score of a batch: it runs the shared trunk and the
\* discriminator head
Score(samples, w) == <<samples, Restrict(w, {SharedNetName, DiscTop})>>

\* sanity_check(): the score of the generated samples on the three paths
SanityCheck ==
    LET params == _assemble_prior_params(prior_param_dist_names, prior_param_names,
                                         prior_params)
        samples == <<params, Restrict(weights, {GenNet})>>
        gen_score == Score(samples, weights)
        disc_score1 == Score(samples, weights)
        disc_score2 == Score(samples, weights)
    IN Predicts("sanity_check",
                IF gen_score = disc_score1 /\ gen_score = disc_score2
                THEN "passed" ELSE "AssertionError",
                params)

Operate ==
    \/ TrainDiscPass
    \/ TrainGenPass
    \/ TrainReturn
    \/ Generate
    \/ Encode
    \/ SanityCheck

Next == Construct \/ Operate

Spec == Init /\ [][Next]_vars


\* ------------------------------------------------------------------------
\* Properties
\* ------------------------------------------------------------------------
\* the weight groups: the generator, and the groups of the discriminator side
WeightGroups == {g \in DOMAIN weights : TRUE}
DiscSideGroups == WeightGroups \ {GenNet}

\* C1: every call of train_on_minibatch runs the discriminator pass once, then
\* the generator pass once: after the first pass the call has run <<disc>>,
\* when it returns it has run exactly <<disc, gen>>, and between calls no
\* pass runs.
C1_DiscThenGenOnce ==
    /\ pc = "ready" => passes = <<>>
    /\ pc = "train_second" => passes = <<"disc">>
    /\ pc = "train_return" => passes = <<"disc", "gen">>

\* C1 witness: a second call, with labels given to a supervised model, is
\* about to return after both of its passes.
C1_Witness ==
    /\ pc = "train_return"
    /\ calls = 2
    /\ passes = <<"disc", "gen">>
    /\ Truthy(supervised_dist_name)

\* C2: the discriminator pass leaves the generator's weights as they were,
\* and the generator pass leaves the weights of the shared trunk, the
\* discriminator head, the encoder head and every output head as they were.
C2_FreezeGroupIsolation ==
    [][/\ passes' = Append(passes, "disc") => weights'[GenNet] = weights[GenNet]
       /\ passes' = Append(passes, "gen") =>
             \A g \in DiscSideGroups : weights'[g] = weights[g]]_vars

\* C2 witness: the first call has run both passes; the discriminator side
\* was updated by the first and the generator by the second, while the flags
\* are those left by the generator-training setup.
C2_Witness ==
    /\ pc = "train_return"
    /\ calls = 1
    /\ weights[GenNet] = 1
    /\ \A g \in DiscSideGroups : weights[g] = 1
    /\ trainable[GenNet]
    /\ \A g \in DiscSideGroups : ~trainable[g]

\* the freeze pattern each training graph requires
DiscTrainPattern ==
    /\ ~trainable[GenNet]
    /\ \A g \in (DOMAIN trainable) \ {GenNet} : trainable[g]
GenTrainPattern ==
    /\ trainable[GenNet]
    /\ \A g \in (DOMAIN trainable) \ {GenNet} : ~trainable[g]

\* C3: when the discriminator-training graph is compiled the generator is
\* frozen and every other group is trainable; when the generator-training
\* graph is compiled the generator is trainable and every other group is
\* frozen; so each compiled graph trains exactly its own groups and every
\* group is trained by exactly one of the two graphs.
C3_OneOwnerAtCompile ==
    /\ pc = "disc_train_model" => DiscTrainPattern
    /\ pc = "gen_train_model" => GenTrainPattern
    /\ "disc_train_model" \in DOMAIN models =>
          models["disc_train_model"].collected = DiscSideGroups
    /\ "gen_train_model" \in DOMAIN models =>
          models["gen_train_model"].collected = {GenNet}

\* C3 witness: both training graphs are compiled, for two meaningful
\* distributions.
C3_Witness ==
    /\ pc = "ready"
    /\ Len(meaningful_dists) = 2
    /\ {"disc_train_model", "gen_train_model"} \subseteq DOMAIN models

\* C4 as claimed: each of the two build steps has set the flag of every
\* weight group itself when it compiles.
C4_EachStepSetsEveryFlag ==
    pc \in {"disc_train_model", "gen_train_model"} => assigned = DOMAIN trainable

\* the positions of __init__ before the discriminator-training step
BeforeDiscTrain ==
    {"new", "sample_latents", "gen_branch", "real_input", "real_branch", "gen_model",
     "encoder_model", "disc_model", "disc_train_freeze"}

\* C4 amended: the generator-training step sets every flag itself before its
\* compile; the discriminator-training step sets the generator's flag only
\* and the other groups still carry the flag they were created with, which
\* nothing has set before; both compile under the pattern they require, and
\* no flag changes between the last assignment of a step and its compile.
C4_ReassertBeforeCompile ==
    /\ [](pc = "gen_train_model" => assigned = DOMAIN trainable /\ GenTrainPattern)
    /\ [](pc = "disc_train_model" => assigned = {GenNet} /\ DiscTrainPattern)
    /\ [](pc \in BeforeDiscTrain => \A g \in DOMAIN trainable : trainable[g])
    /\ [][(pc \in {"disc_train_model", "gen_train_model"}) => (trainable' = trainable)]_vars

\* C4 witness: the generator-training graph is about to be compiled with
\* every flag set by its own step.
C4_Witness ==
    /\ pc = "gen_train_model"
    /\ assigned = DOMAIN trainable
    /\ Len(meaningful_dists) = 2


\* the supervised loss the distribution gives the rows of a fed batch
FedNll(r) ==
    nll(supervised_dist_name, labels_fed[1].batch[r],
        param_dict(labels_fed[1].preds[r], ParamNames(supervised_dist_name),
                   ParamDims(supervised_dist_name)))

ZeroRow(r) == \A j \in DOMAIN labels_fed[1].batch[r] : labels_fed[1].batch[r][j] = 0

\* C5: with a supervised distribution, when the label batch the
\* discriminator pass feeds is zero in every entry (given so, or substituted
\* for labels=None), the supervised loss of every row of the batch is zero
\* and so is the supervised loss the pass reports, whatever the predictions.
C5_ZeroBatchZeroLoss ==
    (labels_fed # <<>> /\ \A r \in 1..BatchSize : ZeroRow(r)) =>
        /\ Len(sup_rows) = BatchSize
        /\ \A r \in 1..BatchSize : sup_rows[r] = 0
        /\ disc_losses[Len(disc_losses)] = 0

\* C5 witness: labels=None was replaced by the zero batch of shape
\* (batch_size, sample_size) and the loss is zero on rows whose predictions
\* would have cost something.
C5_Witness ==
    /\ labels_fed # <<>>
    /\ ~labels_fed[1].given
    /\ DOMAIN labels_fed[1].batch = 1..BatchSize
    /\ \A r \in 1..BatchSize :
          /\ DOMAIN labels_fed[1].batch[r] = 1..sample_size(supervised_dist_name)
          /\ ZeroRow(r)
          /\ FedNll(r) > 0
          /\ sup_rows[r] = 0

\* C6 as claimed: every row whose label vector is zero in every component
\* contributes no supervised loss, whatever the other rows carry.
C6_ZeroRowNoLoss ==
    labels_fed # <<>> => \A r \in 1..BatchSize : ZeroRow(r) => sup_rows[r] = 0

\* C6 amended: labels count as missing only when the whole batch is zero in
\* every entry, and then every row contributes zero; when any entry of the
\* batch is non-zero every row, the all-zero rows included, contributes the
\* negative log-likelihood of its labels under the predictions.
C6_MissingIsBatchWide ==
    labels_fed # <<>> =>
        IF \A r \in 1..BatchSize : ZeroRow(r)
        THEN \A r \in 1..BatchSize : sup_rows[r] = 0
        ELSE \A r \in 1..BatchSize : sup_rows[r] = FedNll(r)

\* C6 witness: a batch with a labelled row and an all-zero row, whose
\* all-zero row is charged a supervised loss.
C6_Witness ==
    /\ labels_fed # <<>>
    /\ \E r, q \in 1..BatchSize : ZeroRow(r) /\ ~ZeroRow(q) /\ sup_rows[r] > 0

\* the last operation to finish was train_on_minibatch
TrainReturned == pc = "ready" /\ out.op = "train_on_minibatch"

\* C7 as claimed: every key of the mapping train_on_minibatch returns
\* starts with g_ or d_.
C7_ReturnedKeysPrefixed ==
    TrainReturned => \A k \in DOMAIN out.value : k[1] \in {"g_", "d_"}

\* C7 amended: train_on_minibatch returns a mapping with the single key
\* 'losses'; its value is the mapping whose keys are the metric names of the
\* generator-training graph prefixed g_ and those of the discriminator-
\* training graph prefixed d_, one key per metric name, each with the loss
\* of that name from that pass.
C7_LossesMappingPrefixed ==
    TrainReturned =>
        LET gm == metrics_names(models["gen_train_model"])
            dm == metrics_names(models["disc_train_model"])
            logs == out.value[<<"losses">>]
        IN /\ DOMAIN out.value = {<<"losses">>}
           /\ \A k \in DOMAIN logs : k[1] \in {"g_", "d_"}
           /\ DOMAIN logs = {<<"g_">> \o gm[i] : i \in DOMAIN gm}
                               \cup {<<"d_">> \o dm[i] : i \in DOMAIN dm}
           /\ Cardinality(DOMAIN logs) = Len(gm) + Len(dm)
           /\ Len(gen_losses) = Len(gm) /\ Len(disc_losses) = Len(dm)
           /\ \A i \in DOMAIN gm : logs[<<"g_">> \o gm[i]] = gen_losses[i]
           /\ \A i \in DOMAIN dm : logs[<<"d_">> \o dm[i]] = disc_losses[i]

\* C7 witness: a supervised model with two meaningful distributions has
\* returned from train_on_minibatch.
C7_Witness ==
    /\ TrainReturned
    /\ Len(meaningful_dists) = 2
    /\ Truthy(supervised_dist_name)
    /\ Cardinality(DOMAIN out.value[<<"losses">>]) = 10

\* the positions of __init__ up to the supervised_dist_name assertion
UpToAssert == {"new", "sample_latents", "gen_branch", "real_input"}

\* C8: constructing with a supervised_dist_name that is not a key of
\* meaningful_dists never gets past the assertion: construction ends raised
\* with no graph compiled.
C8_UnknownNameRaises ==
    (supervised_dist_name # None /\ supervised_dist_name \notin Range(meaningful_dists))
        => /\ pc \in UpToAssert \cup {"raised"}
           /\ DOMAIN models = {}


\* the position of a parameter name in its distribution's param_info()
ParamPos(dist_name, param) ==
    CHOOSE k \in DOMAIN param_info(dist_name) : param_info(dist_name)[k][1] = param

\* all <<distribution, parameter>> pairs of the configured distributions
ConfiguredPairs ==
    {<<d, ParamNames(d)[k]>> : <<d, k>> \in
        {<<d2, k2>> \in (Range(noise_dists) \cup Range(meaningful_dists)) \X (1..2) :
            k2 \in DOMAIN param_info(d2)}}

\* C9: the three lists of the Latent Sampler have equal length and name,
\* position by position, the <<distribution, parameter>> pair the placeholder
\* was created for, each configured pair once; noise distributions come
\* before meaningful ones and the parameters of one distribution are in
\* param_info() order; and the list _assemble_prior_params returns has at
\* position i the prior_params entry of the pair of placeholder i.
C9_FeedMatchesPlaceholders ==
    pc \notin {"new", "sample_latents"} =>
        /\ Len(prior_param_inputs) = Len(prior_param_names)
        /\ Len(prior_param_names) = Len(prior_param_dist_names)
        /\ \A i \in DOMAIN prior_param_inputs :
              prior_param_inputs[i].name =
                  <<"g_prior_param_", prior_param_dist_names[i], "_", prior_param_names[i]>>
        /\ {<<prior_param_dist_names[i], prior_param_names[i]>> :
               i \in DOMAIN prior_param_names} = ConfiguredPairs
        /\ Len(prior_param_names) = Cardinality(ConfiguredPairs)
        /\ \A i, j \in DOMAIN prior_param_dist_names :
              i < j =>
                 /\ prior_param_dist_names[i] \in Range(meaningful_dists)
                       => prior_param_dist_names[j] \in Range(meaningful_dists)
                 /\ prior_param_dist_names[i] = prior_param_dist_names[j]
                       => ParamPos(prior_param_dist_names[i], prior_param_names[i])
                             < ParamPos(prior_param_dist_names[j], prior_param_names[j])
        /\ fed # <<>> =>
              /\ Len(fed) = Len(prior_param_inputs)
              /\ \A i \in DOMAIN fed :
                    fed[i] = prior_params[prior_param_inputs[i].name[2]]
                                         [prior_param_inputs[i].name[4]]

\* C9 witness: a model with one noise and two meaningful distributions has
\* fed its five prior parameters to a graph.
C9_Witness ==
    /\ pc = "ready"
    /\ Len(prior_param_inputs) = 5
    /\ Len(fed) = 5

\* C10: once constructed, no operation changes a trainable flag or compiles
\* a graph, and generate, encode and sanity_check change neither the weights
\* nor the prior parameter bank.
C10_OperationsFrame ==
    [][(pc \in {"ready", "train_second", "train_return"}) =>
          /\ trainable' = trainable
          /\ models' = models
          /\ n_compiles' = n_compiles
          /\ prior_params' = prior_params
          /\ (pc = "ready" /\ pc' = "ready") => weights' = weights]_vars

\* C10 witness: generate ran after a training call and the weights are those
\* the training call left.
C10_Witness ==
    /\ pc = "ready"
    /\ calls = 2
    /\ out.op = "generate"
    /\ weights[GenNet] = 1
    /\ weights[SharedNetName] = 1


\* a training pass has run its graph and the call has not returned yet
InRun == graph_run.model # "none"

\* the slices of a param_dict, laid side by side in declared order
SlicesInOrder(dict, names) == Concatenate([k \in DOMAIN names |-> dict[names[k]]])

\* C12: for every configured distribution the merged parameter tensor is as
\* wide as the sum of the declared dimensions; the slices sampling_fn and
\* mutual_info_loss cut from it have the declared widths, lie side by side
\* from the first column to the last, and give every named parameter its
\* original columns back; a distribution with one parameter uses its sole
\* input as the merged tensor
C12_MergeSliceRoundTrip ==
    InRun =>
        /\ \A d \in DOMAIN graph_run.merged :
              LET merged == graph_run.merged[d]
                  dict == graph_run.param_dicts[d]
              IN /\ Len(merged) = SumSeq(ParamDims(d))
                 /\ DOMAIN dict = Range(ParamNames(d))
                 /\ \A k \in DOMAIN ParamNames(d) :
                       /\ Len(dict[ParamNames(d)[k]]) = ParamDims(d)[k]
                       /\ dict[ParamNames(d)[k]] = prior_params[d][ParamNames(d)[k]]
                 /\ SlicesInOrder(dict, ParamNames(d)) = merged
                 /\ Len(ParamNames(d)) = 1 => merged = prior_params[d][ParamNames(d)[1]]
        /\ \A d \in DOMAIN graph_run.head_out :
              \A r \in 1..BatchSize :
                  LET row == graph_run.preds[LossOutputName(d, TRUE)][r]
                      dict == param_dict(row, ParamNames(d), ParamDims(d))
                  IN /\ Len(row) = SumSeq(ParamDims(d))
                     /\ DOMAIN dict = Range(ParamNames(d))
                     /\ \A k \in DOMAIN ParamNames(d) :
                           dict[ParamNames(d)[k]] = graph_run.head_out[d][k][r]
                     /\ SlicesInOrder(dict, ParamNames(d)) = row
                     /\ Len(ParamNames(d)) = 1 => row = graph_run.head_out[d][1][r]

\* C12 witness: a pass ran with a one-parameter and a two-parameter
\* distribution, whose parameters differ, both merged and sliced
C12_Witness ==
    /\ InRun
    /\ {"c1", "c2"} \subseteq DOMAIN graph_run.head_out
    /\ Len(ParamNames("c1")) = 1
    /\ Len(ParamNames("c2")) = 2
    /\ graph_run.param_dicts["c2"]["mean"] # graph_run.param_dicts["c2"]["std"]
    /\ Len(graph_run.merged["c2"]) = 2

\* C11: on the predictions, sampled latents and labels of a pass, every loss
\* function of both training graphs gives for every targets the loss its
\* all-ones dummy targets gave, hence the same loss for any two targets;
\* the mutual-information loss of a
\* distribution is the nll of that distribution's sampled latents under the
\* parameters sliced from the predictions
C11_LossesIgnoreTargets ==
    InRun =>
        LET model == models[graph_run.model]
        IN /\ \A o \in Range(model.outputs) :
                 \A targets \in Targets :
                     call_loss(model.loss[o], targets, graph_run.preds[o],
                               graph_run.tensors) = graph_run.loss_rows[o]
           /\ \A d \in Range(meaningful_dists) :
                 graph_run.loss_rows[LossOutputName(d, TRUE)]
                     = [r \in 1..BatchSize |->
                           nll(d, graph_run.tensors[<<"g_sample_prior_", d>>][r],
                               param_dict(graph_run.preds[LossOutputName(d, TRUE)][r],
                                          ParamNames(d), ParamDims(d)))]

\* C11 witness: a discriminator pass in which the real-path loss, a
\* mutual-information loss and the supervised loss are all non-zero on some
\* row, so that a loss scaled by its targets would differ from the one
\* computed
C11_Witness ==
    /\ graph_run.model = "disc_train_model"
    /\ Truthy(supervised_dist_name)
    /\ \E r \in 1..BatchSize : graph_run.loss_rows[DiscRealLossLayer][r] > 0
    /\ \E r \in 1..BatchSize : graph_run.loss_rows[DiscGenLossLayer][r] > 0
    /\ \E d \in Range(meaningful_dists) :
          \E r \in 1..BatchSize : graph_run.loss_rows[LossOutputName(d, TRUE)][r] > 0
    /\ \E r \in 1..BatchSize :
          graph_run.loss_rows[LossOutputName(supervised_dist_name, FALSE)][r] > 0

\* the outputs of a training model are distinct nodes and its loss keys are
\* exactly their names
OutputsMatchLosses(model) ==
    /\ \A i, j \in DOMAIN model.outputs : model.outputs[i] = model.outputs[j] => i = j
    /\ Range(model.outputs) = DOMAIN model.loss

\* 1 if a supervised distribution is configured, else 0
SupervisedOutputs == IF Truthy(supervised_dist_name) THEN 1 ELSE 0

\* C13: in both training graphs outputs and loss functions correspond one to
\* one by output-node name: the discriminator-training graph has
\* 2 + |meaningful| + (1 if supervised) outputs, the generator-training
\* graph 1 + |meaningful|, each with the same set of loss keys, and a
\* training pass hands over one dummy target per output
C13_OutputsLossesOneToOne ==
    /\ "disc_train_model" \in DOMAIN models =>
          LET model == models["disc_train_model"]
          IN /\ OutputsMatchLosses(model)
             /\ Len(model.outputs) = 2 + Len(meaningful_dists) + SupervisedOutputs
             /\ Cardinality(DOMAIN model.loss)
                  = 2 + Len(meaningful_dists) + SupervisedOutputs
    /\ "gen_train_model" \in DOMAIN models =>
          LET model == models["gen_train_model"]
          IN /\ OutputsMatchLosses(model)
             /\ Len(model.outputs) = 1 + Len(meaningful_dists)
             /\ Cardinality(DOMAIN model.loss) = 1 + Len(meaningful_dists)
    /\ InRun =>
          /\ Len(graph_run.dummy_targets) = Len(models[graph_run.model].outputs)
          /\ \A i \in DOMAIN graph_run.dummy_targets :
                graph_run.dummy_targets[i] = [r \in 1..BatchSize |-> 1]
          /\ DOMAIN graph_run.loss_rows = DOMAIN models[graph_run.model].loss

\* C13 witness: a supervised model with two meaningful distributions whose
\* generator pass runs after its discriminator pass: five outputs and
\* targets on the discriminator side, three on the generator side
C13_Witness ==
    /\ graph_run.model = "gen_train_model"
    /\ Truthy(supervised_dist_name)
    /\ Len(meaningful_dists) = 2
    /\ Len(models["disc_train_model"].outputs) = 5
    /\ Len(models["gen_train_model"].outputs) = 3
    /\ Len(graph_run.dummy_targets) = 3
    /\ passes # <<>> /\ passes[Len(passes)] = "gen"

====
